---- MODULE Spec2Model ----
(***************************************************************************)
(* k8s-client-kit: the resource watcher (types.go) and the generic client  *)
(* (dynamic-helper.go).                                                     *)
(*                                                                         *)
(* A K8sResourceWatcher is a thin wrapper around a client-go shared index  *)
(* informer.  The wrapper's own code is a few lines per method; what it    *)
(* does is decided by the informer it builds in NewDynamicWatcher and      *)
(* drives in Start/Stop/AddEventHandler/GetObject.  The informer is        *)
(* modelled by what client-go does: a reflector (list, then watch, relist  *)
(* after the stream ends), a DeltaFIFO, the processLoop that pops it into  *)
(* the indexer, and the listeners that call the handlers.                  *)
(***************************************************************************)
EXTENDS Integers, Sequences, FiniteSets, TLC

\* ------------------------------------------------------------------ bounds
MaxMutations == 3      \* server-side mutations in one behaviour
MaxStopCalls == 4      \* calls of K8sResourceWatcher.Stop in one behaviour
MaxStopMutations == 1  \* server-side mutations in a behaviour with Stop calls
MaxPending   == 1      \* HandleDeltas waits while a listener holds this many notifications
MaxDisconnects == 1    \* ends of the watch stream per watcher
MaxFairMutations == 2  \* server-side mutations in a behaviour of the fair loop
MaxFairDisconnects == 1 \* ends of the watch stream in a behaviour of the fair loop
MaxBatch == 3          \* objects in one call of ApplyUnstructuredObjsBatch
MaxAddSchemeCalls == 2 \* calls of AddScheme by one caller
MaxAdds == 3           \* calls of queue.Add for one key between two Gets of it

\* ------------------------------------------------------------ the universe
NsA == "team-a"
NsB == "team-b"
ObjIds == { [ns |-> NsA, name |-> "x"], [ns |-> NsB, name |-> "x"] }
Scopes == { NsA, "" }          \* namespace argument of NewDynamicWatcher
Wids   == { "w1", "w2" }
Handlers == { "h1" }           \* the registrations made with AddEventHandler
Nil == "nil"                   \* the nil error
\* the objects handed to ApplyUnstructuredObjsBatch: two that the server
\* accepts and one it rejects as invalid; rv is what the server assigns
ApplyObjs == { [name |-> "a", valid |-> TRUE, rv |-> 0],
               [name |-> "b", valid |-> TRUE, rv |-> 0],
               [name |-> "bad", valid |-> FALSE, rv |-> 0] }
Gvk == "apps/v1, Kind=Deployment"
GVs == { "core/v1", "crd.example/v1", "crd.example/v2" }
BuiltIn == { "core/v1" }       \* registered in the scheme of a new cluster
Callers == { "c1", "c2" }      \* goroutines that call AddScheme
AuthTypes == { "TOKEN", "KUBECONFIG_BYTES", "IN_CLUSTER" }
\* the library call that rejects the credentials, if any
Faults == { "none", "config", "dynamic", "standard" }
\* the arguments of GvkToGvr
Gvks == [Group : { "", "apps", "batch" }, Version : { "v1" }, Kind : { "Deployment", "Pod", "Widget" }]
\* the discovery documents a server may return per group/version; a server
\* lists a resource and its subresources in no fixed order
Docs ==
    ("apps/v1" :> { << [Name |-> "deployments", Kind |-> "Deployment"],
                      [Name |-> "deployments/status", Kind |-> "Deployment"],
                      [Name |-> "deployments/scale", Kind |-> "Scale"] >>,
                   << [Name |-> "deployments/status", Kind |-> "Deployment"],
                      [Name |-> "deployments", Kind |-> "Deployment"] >> })
    @@ ("v1" :> { << [Name |-> "pods", Kind |-> "Pod"],
                     [Name |-> "pods/status", Kind |-> "Pod"] >>,
                  << >> })
EmptyGVR == [Group |-> "", Version |-> "", Resource |-> ""]
NamespaceIndex == "namespace"    \* cache.NamespaceIndex
IndexNames == { NamespaceIndex, "byOwner", "byLabel" }
IndexFuncs == { "MetaNamespaceIndexFunc", "ownerFunc", "labelFunc" }
GetNamespaces == { "", NsA, "other" }   \* namespace arguments of GetObject
GetNames == { "x", "ghost" }            \* name arguments of GetObject
Keys == { << o.ns, o.name >> : o \in ObjIds }   \* the cache keys of the objects

VARIABLES
    \* the API server
    server,        \* ObjIds -> resourceVersion of the stored object, 0 = absent
    log,           \* the watch history: one event per mutation, index = RV
    \* one K8sResourceWatcher
    wns,           \* K8sResourceWatcher.Namespace
    wpc,           \* position of the caller of Start
    stopSending,   \* goroutines blocked in  w.stop <- struct{}{}
    stopReturned,  \* calls of Stop that have returned
    closer,        \* controller.Run: go func() { <-stopCh; Queue.Close() }
    fifoClosed,    \* DeltaFIFO.closed
    cpc,           \* controller.Run: wait.Until(processLoop, 1s, stopCh)
    rpc,           \* Reflector.Run: BackoffUntil(ListAndWatch, stopCh)
    spc,           \* the resync goroutine of one ListAndWatch
    lastRV,        \* Reflector.lastSyncResourceVersion
    fifo,          \* DeltaFIFO: the queued keys, each with its deltas
    indexer,       \* the informer's store: ObjIds -> RV, 0 = absent
    listeners,     \* sharedProcessor.listeners: the pending notifications of each
    calls,         \* per listener, what its handlers have been called with so far
    drops,         \* watch streams of this watcher that have ended so far
    queue,         \* K8sResourceWatcher.queue
    \* the GenericK8sClient the dynamic client comes from
    mgrCancelled,  \* mgrCtx is cancelled
    mgrPc,         \* position of the caller of GenericK8sClient.Start
    \* one call of ApplyUnstructuredObjsBatch
    objs,          \* the argument: the objects the slice points to
    bpc,           \* position of the range loop: the index of the next object
    successfulResults,
    failedResults,
    created,       \* names of the objects the API server stores
    createLog,     \* the Create requests the API server has answered, in order
    \* AddScheme
    schemeLock,    \* GenericK8sClient.schemeLock: its holder, or "free"
    scheme,        \* the group/versions registered in runtimeCluster.GetScheme()
    addPc,         \* position of each caller in AddScheme
    addArg,        \* the gv argument of each caller's current call
    addDone,       \* the gv arguments of each caller's finished calls
    ran,           \* per group/version, how often its addSchemeFunc has run
    \* the process
    reallyCrash,   \* k8s.io/apimachinery/pkg/util/runtime.ReallyCrash
    \* the work queue of a watcher, next to queue (its order)
    dirty,         \* workqueue.Type.dirty: the keys that need processing
    processing,    \* workqueue.Type.processing: the keys handed out by Get
    adds,          \* per key, the calls of Add since the key was last handed out
    \* the caller of GetObject
    got,           \* the arguments and the results of the last call of GetObject
    \* construction and use of a GenericK8sClient
    eagerMapper,   \* cluster.New queries the server's API groups (its default
                   \* RESTMapper is not lazy) in the controller-runtime of the build
    conn,          \* the inputs and the results of the last NewGenericK8sClient...
    use,           \* the outcome of the first request made through conn
    gvr,           \* the argument and the results of the last call of GvkToGvr
    \* the indexers of a call of NewDynamicWatcher
    indexers,      \* the indexers argument
    defaultIndexers \* what is handed to NewFilteredDynamicInformer; << >> before the call

wvars == << wns, wpc, stopSending, stopReturned, closer, fifoClosed, cpc, rpc,
            spc, lastRV, fifo, indexer, listeners, calls, drops, queue >>
svars == << server, log >>
cvars == << mgrCancelled, mgrPc >>
avars == << objs, bpc, successfulResults, failedResults, created, createLog >>
mvars == << schemeLock, scheme, addPc, addArg, addDone, ran >>
xvars == << reallyCrash, dirty, processing, adds, got, eagerMapper, conn, use, gvr,
           indexers, defaultIndexers >>
nvars == << eagerMapper, conn, use, gvr, indexers, defaultIndexers >>
kvars == << avars, mvars, xvars >>
vars  == << svars, wvars, cvars, kvars >>

\* ----------------------------------------------------------------- helpers
Perms(S) == { p \in [1..Cardinality(S) -> S] : \A i, j \in 1..Cardinality(S) : p[i] = p[j] => i = j }

\* cache.MetaNamespaceKeyFunc: "namespace/name", or the bare name
MetaNamespaceKeyFunc(o) == IF o.ns # "" THEN << o.ns, o.name >> ELSE << o.name >>

\* a List and Watch that ignore the namespace of NewDynamicWatcher
InScope_AnyNamespace(ns, o) == TRUE

\* the namespace filter of the dynamic client's List and Watch
InScope(ns, o) == ns = "" \/ o.ns = ns

\* ------------------------------------------------------------- DeltaFIFO
\* One delta: its type, the object (its RV stands for its content) and whether
\* the object is wrapped as DeletedFinalStateUnknown.
Delta(type, rv, fsu) == [type |-> type, rv |-> rv, fsu |-> fsu]

\* position of a key in DeltaFIFO.queue, 0 when f.items has no entry for it
IndexOf(f, id) == IF \E i \in 1..Len(f) : f[i].id = id
                  THEN CHOOSE i \in 1..Len(f) : f[i].id = id
                  ELSE 0

\* dedupDeltas: two trailing Deleted deltas collapse into one; the one that
\* carries the object (not DeletedFinalStateUnknown) is kept.
DedupDeltas(ds) ==
    LET n == Len(ds) IN
    IF n < 2 THEN ds
    ELSE LET a == ds[n - 1]
             b == ds[n]
         IN IF a.type = "Deleted" /\ b.type = "Deleted"
            THEN Append(SubSeq(ds, 1, n - 2), IF b.fsu THEN a ELSE b)
            ELSE ds

\* queueActionLocked: append the delta to the key's deltas, queueing the key
\* when it is not queued yet.
QueueAction(f, type, id, rv, fsu) ==
    LET i == IndexOf(f, id) IN
    IF i = 0
    THEN Append(f, [id |-> id, deltas |-> << Delta(type, rv, fsu) >>])
    ELSE [f EXCEPT ![i].deltas = DedupDeltas(Append(@, Delta(type, rv, fsu)))]

\* a Delete that drops every delete event of the stream
FifoDelete_Dropped(f, idx, id, rv) == f

\* DeltaFIFO.Delete: a delete of a key that is neither in the store nor queued
\* is dropped.
FifoDelete(f, idx, id, rv) ==
    IF idx[id] = 0 /\ IndexOf(f, id) = 0 THEN f
    ELSE QueueAction(f, "Deleted", id, rv, FALSE)

RECURSIVE ReplaceList(_, _, _, _)
ReplaceList(f, listed, ord, i) ==
    IF i > Len(ord) THEN f
    ELSE ReplaceList(IF listed[ord[i]] > 0
                     THEN QueueAction(f, "Replaced", ord[i], listed[ord[i]], FALSE)
                     ELSE f, listed, ord, i + 1)

\* Replace, deletion detection against the queue: a queued key that the list
\* does not hold gets a Deleted delta with its newest queued object.
RECURSIVE ReplaceQueued(_, _, _, _)
ReplaceQueued(f, listed, ord, i) ==
    IF i > Len(ord) THEN f
    ELSE LET o == ord[i]
             j == IndexOf(f, o)
         IN ReplaceQueued(IF listed[o] = 0 /\ j > 0
                          THEN QueueAction(f, "Deleted", o, f[j].deltas[Len(f[j].deltas)].rv, TRUE)
                          ELSE f, listed, ord, i + 1)

\* a Replace that does not compare the list with the store
ReplaceKnown_NoDetection(f, idx, listed, ord, i) == f

\* Replace, deletion detection against knownObjects (the indexer): a stored
\* key that is neither listed nor queued gets a Deleted delta with the stored
\* object.
RECURSIVE ReplaceKnown(_, _, _, _, _)
ReplaceKnown(f, idx, listed, ord, i) ==
    IF i > Len(ord) THEN f
    ELSE LET o == ord[i] IN
         ReplaceKnown(IF listed[o] = 0 /\ idx[o] > 0 /\ IndexOf(f, o) = 0
                      THEN QueueAction(f, "Deleted", o, idx[o], TRUE)
                      ELSE f, idx, listed, ord, i + 1)

\* DeltaFIFO.Replace(list): ord is the order in which the list and the maps
\* are walked.
Replace(f, idx, listed, ord) ==
    ReplaceKnown(ReplaceQueued(ReplaceList(f, listed, ord, 1), listed, ord, 1),
                 idx, listed, ord, 1)

\* DeltaFIFO.Resync: a Sync delta for every stored key that is not queued
RECURSIVE Resync(_, _, _, _)
Resync(f, idx, ord, i) ==
    IF i > Len(ord) THEN f
    ELSE LET o == ord[i] IN
         Resync(IF idx[o] > 0 /\ IndexOf(f, o) = 0
                THEN QueueAction(f, "Sync", o, idx[o], FALSE)
                ELSE f, idx, ord, i + 1)

\* ------------------------------------------- sharedIndexInformer.HandleDeltas
Notification(kind, id, rv, sync) == [kind |-> kind, id |-> id, rv |-> rv, sync |-> sync]

\* processDeltas: every delta of the popped key, oldest first, is applied to
\* the indexer and turned into one notification.  An update that leaves the
\* resourceVersion unchanged is a resync notification (OnUpdate: isSync).
RECURSIVE ProcessDeltas(_, _, _, _, _)
ProcessDeltas(idx, id, ds, i, out) ==
    IF i > Len(ds) THEN [idx |-> idx, out |-> out]
    ELSE LET d == ds[i] IN
         IF d.type = "Deleted"
         THEN ProcessDeltas([idx EXCEPT ![id] = 0], id, ds, i + 1,
                            Append(out, Notification("delete", id, d.rv, FALSE)))
         ELSE IF idx[id] > 0
              THEN ProcessDeltas([idx EXCEPT ![id] = d.rv], id, ds, i + 1,
                                 Append(out, Notification("update", id, d.rv, idx[id] = d.rv)))
              ELSE ProcessDeltas([idx EXCEPT ![id] = d.rv], id, ds, i + 1,
                                 Append(out, Notification("add", id, d.rv, FALSE)))

\* sharedProcessor.distribute: a resync notification goes to the listeners
\* that are syncing only, every other notification to every listener.
RECURSIVE Distribute(_, _, _, _)
Distribute(pending, out, syncing, i) ==
    IF i > Len(out) THEN pending
    ELSE Distribute(IF out[i].sync /\ ~syncing THEN pending ELSE Append(pending, out[i]),
                    out, syncing, i + 1)

\* ------------------------------------------------------------------- Init
\* The process as the packages initialise it: ReallyCrash is true unless the
\* program sets it.
ProcessInit ==
    /\ reallyCrash = TRUE

\* The client of the watchers is constructed; no other construction is
\* under way.
ConnInit ==
    /\ eagerMapper = TRUE
    /\ conn = [made |-> FALSE]
    /\ use = "none"
    /\ gvr = [called |-> FALSE]

\* The watchers are built without indexers of the caller.
IndexInit ==
    /\ indexers = << >>
    /\ defaultIndexers = (NamespaceIndex :> "MetaNamespaceIndexFunc")

\* GetObject has not been called
GetInit ==
    /\ got = [called |-> FALSE]

\* workqueue.NewRateLimitingQueue: nothing queued, nothing in flight
QueueInit ==
    /\ dirty = [w \in Wids |-> {}]
    /\ processing = [w \in Wids |-> {}]
    /\ adds = [w \in Wids |-> [k \in Keys |-> 0]]

\* No call of ApplyUnstructuredObjsBatch is made.
NoBatch ==
    /\ objs = << >>
    /\ bpc = 0
    /\ successfulResults = << >>
    /\ failedResults = << >>
    /\ created = {}
    /\ createLog = << >>

\* The scheme of a new cluster holds the built-in group/versions; nobody
\* holds schemeLock.
SchemeInit ==
    /\ schemeLock = "free"
    /\ scheme = BuiltIn
    /\ addPc = [c \in Callers |-> "idle"]
    /\ addArg = [c \in Callers |-> ""]
    /\ addDone = [c \in Callers |-> << >>]
    /\ ran = [gv \in GVs |-> 0]

\* the watchers, the API server and the client before anything is called
InformerInit ==
    /\ server = [o \in ObjIds |-> 0]
    /\ log = << >>
    /\ wpc = [w \in Wids |-> "created"]
    /\ stopSending = [w \in Wids |-> 0]
    /\ stopReturned = [w \in Wids |-> 0]
    /\ closer = [w \in Wids |-> "none"]
    /\ fifoClosed = [w \in Wids |-> FALSE]
    /\ cpc = [w \in Wids |-> "none"]
    /\ rpc = [w \in Wids |-> "none"]
    /\ spc = [w \in Wids |-> "none"]
    /\ lastRV = [w \in Wids |-> 0]
    /\ fifo = [w \in Wids |-> << >>]
    /\ indexer = [w \in Wids |-> [o \in ObjIds |-> 0]]
    /\ listeners = [w \in Wids |-> << >>]
    /\ calls = [w \in Wids |-> << >>]
    /\ drops = [w \in Wids |-> 0]
    /\ queue = [w \in Wids |-> << >>]
    /\ mgrCancelled = FALSE
    /\ mgrPc = "idle"

\* The state after NewGenericK8sClient... and NewDynamicWatcher: nothing
\* runs, the store, the DeltaFIFO and the work queue are empty, the stop
\* channel is unbuffered and has no sender.
WatchInit ==
    /\ InformerInit
    /\ wns \in [Wids -> Scopes]
    /\ NoBatch
    /\ SchemeInit
    /\ ProcessInit
    /\ QueueInit
    /\ GetInit
    /\ IndexInit
    /\ ConnInit

\* ------------------------------------------------------------- API server
\* The watch stream of w is down: its loop runs and the reflector is between
\* the end of one stream and the next list.
StreamDown(w) == wpc[w] = "running" /\ rpc[w] \in { "backoff", "check", "list" }

\* Object o is in w's cache, listener h knows it, and nothing about it is in
\* flight.
InSync(w, h, o) ==
    /\ indexer[w][o] > 0
    /\ o \in calls[w][h].view
    /\ IndexOf(fifo[w], o) = 0
    /\ \A i \in 1..Len(listeners[w][h]) : listeners[w][h][i].id # o

ServerCreate(o, max) ==
    /\ Len(log) < max
    /\ server[o] = 0
    /\ server' = [server EXCEPT ![o] = Len(log) + 1]
    /\ log' = Append(log, [type |-> "Added", id |-> o, rv |-> Len(log) + 1])
    /\ calls' = [w \in Wids |-> [h \in DOMAIN calls[w] |-> [calls[w][h] EXCEPT !.del[o] = "idle"]]]
    /\ UNCHANGED << kvars, cvars, wns, wpc, stopSending, stopReturned, closer, fifoClosed, cpc, rpc,
                    spc, lastRV, fifo, indexer, listeners, drops, queue >>

ServerModify(o, max) ==
    /\ Len(log) < max
    /\ server[o] > 0
    /\ server' = [server EXCEPT ![o] = Len(log) + 1]
    /\ log' = Append(log, [type |-> "Modified", id |-> o, rv |-> Len(log) + 1])
    /\ UNCHANGED << kvars, wvars, cvars >>

\* calls[w][h].del[o] becomes "armed" when o is deleted while w's stream is
\* down and o is in sync for listener h.
ServerDelete(o, max) ==
    /\ Len(log) < max
    /\ server[o] > 0
    /\ server' = [server EXCEPT ![o] = 0]
    /\ log' = Append(log, [type |-> "Deleted", id |-> o, rv |-> Len(log) + 1])
    /\ calls' = [w \in Wids |-> [h \in DOMAIN calls[w] |->
                    IF StreamDown(w) /\ InSync(w, h, o)
                    THEN [calls[w][h] EXCEPT !.del[o] = "armed"]
                    ELSE calls[w][h]]]
    /\ UNCHANGED << kvars, cvars, wns, wpc, stopSending, stopReturned, closer, fifoClosed, cpc, rpc,
                    spc, lastRV, fifo, indexer, listeners, drops, queue >>

\* ------------------------------------------------------- the stop channel
\* one stop channel for all the watchers of a connection
StopChan_Shared(w) == "w1"

\* NewDynamicWatcher: stop: make(chan struct{}), a channel of the watcher's
\* own; stopSending and stopReturned are kept per channel, under the name of
\* its watcher.
StopChan(w) == w

\* A receive on w.stop: it needs a goroutine blocked in the send, and lets
\* that call of Stop return.
Recv(w) ==
    /\ stopSending[StopChan(w)] > 0
    /\ stopSending' = [stopSending EXCEPT ![StopChan(w)] = @ - 1]
    /\ stopReturned' = [stopReturned EXCEPT ![StopChan(w)] = @ + 1]

NoRecv == UNCHANGED << kvars, stopSending, stopReturned >>

\* a Stop that closes the channel instead: the caller returns at once
StopSend_Close(sending, returned) == [sending |-> sending, returned |-> returned + 1]

\* w.stop <- struct{}{} on the unbuffered channel: the caller blocks in the
\* send until some goroutine receives.
StopSend(sending, returned) == [sending |-> sending + 1, returned |-> returned]

\* K8sResourceWatcher.Stop
Stop(w) ==
    /\ stopSending[w] + stopReturned[w] < MaxStopCalls
    /\ stopSending' = [stopSending EXCEPT ![StopChan(w)] =
                          StopSend(stopSending[StopChan(w)], stopReturned[StopChan(w)]).sending]
    /\ stopReturned' = [stopReturned EXCEPT ![StopChan(w)] =
                          StopSend(stopSending[StopChan(w)], stopReturned[StopChan(w)]).returned]
    /\ UNCHANGED << kvars, svars, cvars, wns, wpc, closer, fifoClosed, cpc, rpc, spc, lastRV,
                    fifo, indexer, listeners, calls, drops, queue >>

\* K8sResourceWatcher.Start: informer.Run(w.stop) starts the goroutine that
\* closes the DeltaFIFO on stop, the reflector and the processLoop, and
\* returns when the last two have returned.
Start(w) ==
    /\ wpc[w] = "created"
    /\ wpc' = [wpc EXCEPT ![w] = "running"]
    /\ closer' = [closer EXCEPT ![w] = "waiting"]
    /\ cpc' = [cpc EXCEPT ![w] = "check"]
    /\ rpc' = [rpc EXCEPT ![w] = "check"]
    /\ UNCHANGED << kvars, svars, cvars, wns, stopSending, stopReturned, fifoClosed, spc, lastRV,
                    fifo, indexer, listeners, calls, drops, queue >>

\* controller.Run returned: the processor is stopped, what its listeners have
\* not delivered yet is dropped, and Start returns.
StartReturn(w) ==
    /\ wpc[w] = "running"
    /\ cpc[w] = "exited"
    /\ rpc[w] = "exited"
    /\ wpc' = [wpc EXCEPT ![w] = "returned"]
    /\ listeners' = [listeners EXCEPT ![w] = [h \in DOMAIN @ |-> << >>]]
    /\ UNCHANGED << kvars, svars, cvars, wns, stopSending, stopReturned, closer, fifoClosed, cpc, rpc,
                    spc, lastRV, fifo, indexer, calls, drops, queue >>

\* go func() { <-stopCh; c.config.Queue.Close() }()
CloserRecv(w) ==
    /\ closer[w] = "waiting"
    /\ Recv(w)
    /\ closer' = [closer EXCEPT ![w] = "done"]
    /\ fifoClosed' = [fifoClosed EXCEPT ![w] = TRUE]
    /\ UNCHANGED << kvars, svars, cvars, wns, wpc, cpc, rpc, spc, lastRV, fifo, indexer,
                    listeners, calls, drops, queue >>

\* ------------------------------ controller.Run: wait.Until(processLoop, ...)
\* BackoffUntil, top of the loop:  select { case <-stopCh: return; default: }
CCheck(w) ==
    /\ cpc[w] = "check"
    /\ IF stopSending[w] > 0
       THEN Recv(w) /\ cpc' = [cpc EXCEPT ![w] = "exited"]
       ELSE NoRecv /\ cpc' = [cpc EXCEPT ![w] = "pop"]
    /\ UNCHANGED << kvars, svars, cvars, wns, wpc, closer, fifoClosed, rpc, spc, lastRV, fifo,
                    indexer, listeners, calls, drops, queue >>

\* processLoop: Queue.Pop(HandleDeltas).  The deltas of the first queued key
\* are applied to the indexer and distributed to the listeners, under the
\* locks of the DeltaFIFO and of the informer (blockDeltas).
HandleDeltas(w) ==
    /\ cpc[w] = "pop"
    /\ fifo[w] # << >>
    /\ \A h \in DOMAIN listeners[w] : Len(listeners[w][h]) < MaxPending
    /\ LET e == Head(fifo[w])
           r == ProcessDeltas(indexer[w], e.id, e.deltas, 1, << >>)
       IN /\ indexer' = [indexer EXCEPT ![w] = r.idx]
          /\ \E syncing \in [DOMAIN listeners[w] -> BOOLEAN] :
                listeners' = [listeners EXCEPT ![w] =
                    [h \in DOMAIN @ |-> Distribute(@[h], r.out, syncing[h], 1)]]
    /\ fifo' = [fifo EXCEPT ![w] = Tail(@)]
    /\ UNCHANGED << kvars, svars, cvars, wns, wpc, stopSending, stopReturned, closer, fifoClosed,
                    cpc, rpc, spc, lastRV, calls, drops, queue >>

\* Pop on a closed and empty DeltaFIFO returns ErrFIFOClosed: processLoop
\* returns, and BackoffUntil waits for stopCh or the one-second timer.
CPopClosed(w) ==
    /\ cpc[w] = "pop"
    /\ fifo[w] = << >>
    /\ fifoClosed[w]
    /\ cpc' = [cpc EXCEPT ![w] = "timer"]
    /\ UNCHANGED << kvars, svars, cvars, wns, wpc, stopSending, stopReturned, closer, fifoClosed,
                    rpc, spc, lastRV, fifo, indexer, listeners, calls, drops, queue >>

CTimer(w) ==
    /\ cpc[w] = "timer"
    /\ cpc' = [cpc EXCEPT ![w] = "check"]
    /\ UNCHANGED << kvars, svars, cvars, wns, wpc, stopSending, stopReturned, closer, fifoClosed,
                    rpc, spc, lastRV, fifo, indexer, listeners, calls, drops, queue >>

CTimerStop(w) ==
    /\ cpc[w] = "timer"
    /\ Recv(w)
    /\ cpc' = [cpc EXCEPT ![w] = "exited"]
    /\ UNCHANGED << kvars, svars, cvars, wns, wpc, closer, fifoClosed, rpc, spc, lastRV, fifo,
                    indexer, listeners, calls, drops, queue >>

\* --------------------- Reflector.Run: BackoffUntil(ListAndWatch, ..., stopCh)
RCheck(w) ==
    /\ rpc[w] = "check"
    /\ IF stopSending[w] > 0
       THEN Recv(w) /\ rpc' = [rpc EXCEPT ![w] = "exited"]
       ELSE NoRecv /\ rpc' = [rpc EXCEPT ![w] = "list"]
    /\ UNCHANGED << kvars, svars, cvars, wns, wpc, closer, fifoClosed, cpc, spc, lastRV, fifo,
                    indexer, listeners, calls, drops, queue >>

\* what client.Resource(gvr).Namespace(namespace).List returns
Listed(w) == [o \in ObjIds |-> IF InScope(wns[w], o) THEN server[o] ELSE 0]

\* ListAndWatch: the list, store.Replace with the listed objects, and the
\* start of the resync goroutine.
RList(w) ==
    /\ rpc[w] = "list"
    /\ \E ord \in Perms(ObjIds) :
          fifo' = [fifo EXCEPT ![w] = Replace(@, indexer[w], Listed(w), ord)]
    /\ lastRV' = [lastRV EXCEPT ![w] = Len(log)]
    /\ rpc' = [rpc EXCEPT ![w] = "watch"]
    /\ spc' = [spc EXCEPT ![w] = "waiting"]
    /\ UNCHANGED << kvars, svars, cvars, wns, wpc, stopSending, stopReturned, closer, fifoClosed,
                    cpc, indexer, listeners, calls, drops, queue >>

\* the list is waited for in   select { case <-stopCh: return nil; ... }
RListStop(w) ==
    /\ rpc[w] = "list"
    /\ Recv(w)
    /\ rpc' = [rpc EXCEPT ![w] = "backoff"]
    /\ UNCHANGED << kvars, svars, cvars, wns, wpc, closer, fifoClosed, cpc, spc, lastRV, fifo,
                    indexer, listeners, calls, drops, queue >>

\* watchHandler: the next event of the stream goes to the store
\* (Added -> Add, Modified -> Update, Deleted -> Delete).  The stream holds the
\* events of the watched namespace only.
RWatchEvent(w) ==
    /\ rpc[w] = "watch"
    /\ lastRV[w] < Len(log)
    /\ LET e == log[lastRV[w] + 1] IN
       fifo' = [fifo EXCEPT ![w] =
                  IF ~InScope(wns[w], e.id) THEN @
                  ELSE IF e.type = "Added" THEN QueueAction(@, "Added", e.id, e.rv, FALSE)
                  ELSE IF e.type = "Modified" THEN QueueAction(@, "Updated", e.id, e.rv, FALSE)
                  ELSE FifoDelete(@, indexer[w], e.id, e.rv)]
    /\ lastRV' = [lastRV EXCEPT ![w] = @ + 1]
    /\ UNCHANGED << kvars, svars, cvars, wns, wpc, stopSending, stopReturned, closer, fifoClosed,
                    cpc, rpc, spc, indexer, listeners, calls, drops, queue >>

\* watchHandler:  case <-stopCh: return errorStopRequested;  ListAndWatch
\* returns nil and closes cancelCh, which ends its resync goroutine.
RWatchStop(w) ==
    /\ rpc[w] = "watch"
    /\ Recv(w)
    /\ rpc' = [rpc EXCEPT ![w] = "backoff"]
    /\ spc' = [spc EXCEPT ![w] = "none"]
    /\ UNCHANGED << kvars, svars, cvars, wns, wpc, closer, fifoClosed, cpc, lastRV, fifo,
                    indexer, listeners, calls, drops, queue >>

\* the watch stream ends (server timeout, network drop, too old RV)
Disconnect(w, max) ==
    /\ rpc[w] = "watch"
    /\ drops[w] < max
    /\ drops' = [drops EXCEPT ![w] = @ + 1]
    /\ rpc' = [rpc EXCEPT ![w] = "backoff"]
    /\ spc' = [spc EXCEPT ![w] = "none"]
    /\ UNCHANGED << kvars, svars, cvars, wns, wpc, stopSending, stopReturned, closer, fifoClosed,
                    cpc, lastRV, fifo, indexer, listeners, calls, queue >>

\* BackoffUntil after f():  select { case <-stopCh: return; case <-t.C(): }
RBackoffTimer(w) ==
    /\ rpc[w] = "backoff"
    /\ rpc' = [rpc EXCEPT ![w] = "check"]
    /\ UNCHANGED << kvars, svars, cvars, wns, wpc, stopSending, stopReturned, closer, fifoClosed,
                    cpc, spc, lastRV, fifo, indexer, listeners, calls, drops, queue >>

RBackoffStop(w) ==
    /\ rpc[w] = "backoff"
    /\ Recv(w)
    /\ rpc' = [rpc EXCEPT ![w] = "exited"]
    /\ UNCHANGED << kvars, svars, cvars, wns, wpc, closer, fifoClosed, cpc, spc, lastRV, fifo,
                    indexer, listeners, calls, drops, queue >>

\* the resync goroutine:  select { case <-resyncCh: ; case <-stopCh: return;
\* case <-cancelCh: return }  and then store.Resync()
SResync(w) ==
    /\ spc[w] = "waiting"
    /\ \E ord \in Perms(ObjIds) :
          fifo' = [fifo EXCEPT ![w] = Resync(@, indexer[w], ord, 1)]
    /\ UNCHANGED << kvars, svars, cvars, wns, wpc, stopSending, stopReturned, closer, fifoClosed,
                    cpc, rpc, spc, lastRV, indexer, listeners, calls, drops, queue >>

SStop(w) ==
    /\ spc[w] = "waiting"
    /\ Recv(w)
    /\ spc' = [spc EXCEPT ![w] = "gone"]
    /\ UNCHANGED << kvars, svars, cvars, wns, wpc, closer, fifoClosed, cpc, rpc, lastRV, fifo,
                    indexer, listeners, calls, drops, queue >>

\* ------------------------------------------------- handlers and work queue
\* the handlers wired in the order of the parameters (add, del, update)
HandlerFor_ParameterOrder(kind) ==
    CASE kind = "add"    -> "addHandler"
      [] kind = "update" -> "delHandler"
      [] kind = "delete" -> "updateHandler"

\* AddEventHandler(addHandler, delHandler, updateHandler) registers
\* ResourceEventHandlerFuncs{AddFunc: addHandler, UpdateFunc: updateHandler,
\* DeleteFunc: delHandler}: the caller's function a notification reaches.
HandlerFor(kind) ==
    CASE kind = "add"    -> "addHandler"
      [] kind = "update" -> "updateHandler"
      [] kind = "delete" -> "delHandler"

\* the commented-out funcs: every event adds its key to the queue
QueueAfterEvent_Enqueue(q, key) == Append(q, key)

\* What the registered funcs do to the work queue for the key of an event:
\* nothing.  The funcs that call queue.Add(key) are commented out.
QueueAfterEvent(q, key) == q

RECURSIVE InitialAdds(_, _, _)
InitialAdds(idx, ord, i) ==
    IF i > Len(ord) THEN << >>
    ELSE (IF idx[ord[i]] > 0 THEN << Notification("add", ord[i], idx[ord[i]], FALSE) >> ELSE << >>)
         \o InitialAdds(idx, ord, i + 1)

\* K8sResourceWatcher.AddEventHandler -> sharedIndexInformer.AddEventHandler:
\* a listener is added; on a started informer it is first sent an add
\* notification for every object of the indexer; a stopped informer adds
\* nothing.
AddEventHandler(w, h) ==
    /\ h \notin DOMAIN listeners[w]
    /\ wpc[w] # "returned"
    /\ \E ord \in Perms(ObjIds) :
          listeners' = [listeners EXCEPT ![w] =
              @ @@ (h :> IF wpc[w] = "running" THEN InitialAdds(indexer[w], ord, 1) ELSE << >>)]
    /\ calls' = [calls EXCEPT ![w] =
              @ @@ (h :> [view |-> {}, seen |-> {}, del |-> [o \in ObjIds |-> "idle"]])]
    /\ UNCHANGED << kvars, svars, cvars, wns, wpc, stopSending, stopReturned, closer, fifoClosed,
                    cpc, rpc, spc, lastRV, fifo, indexer, drops, queue >>

\* What one more call of the caller's function fn for object o adds to the
\* record of listener h: view is the set of objects the calls so far have told
\* the handler to exist, seen the objects it was called for at all, del[o]
\* follows the delete calls for an object deleted while the stream was down.
AfterCall(c, fn, o) ==
    [view |-> IF fn = "addHandler" THEN c.view \cup {o}
              ELSE IF fn = "delHandler" THEN c.view \ {o}
              ELSE c.view,
     seen |-> c.seen \cup {o},
     del  |-> [c.del EXCEPT ![o] =
                  IF fn = "addHandler" THEN "idle"
                  ELSE IF fn = "delHandler" /\ @ = "armed" THEN "delivered"
                  ELSE IF fn = "delHandler" /\ @ = "delivered" THEN "twice"
                  ELSE @]]

\* processorListener.run: the oldest pending notification of listener h is
\* handed to the caller's function.
Deliver(w, h) ==
    /\ wpc[w] # "returned"
    /\ h \in DOMAIN listeners[w]
    /\ listeners[w][h] # << >>
    /\ LET n == Head(listeners[w][h]) IN
          /\ listeners' = [listeners EXCEPT ![w][h] = Tail(@)]
          /\ calls' = [calls EXCEPT ![w][h] = AfterCall(@, HandlerFor(n.kind), n.id)]
          /\ queue' = [queue EXCEPT ![w] = QueueAfterEvent(@, MetaNamespaceKeyFunc(n.id))]
    /\ UNCHANGED << kvars, svars, cvars, wns, wpc, stopSending, stopReturned, closer, fifoClosed,
                    cpc, rpc, spc, lastRV, fifo, indexer, drops >>

\* The caller's function panics on the oldest pending notification of
\* listener h.  AddEventHandler hands the functions to the informer as they
\* are, so the panic reaches processorListener.run, whose wait.Until recovers
\* it in HandleCrash: with ReallyCrash it is raised again and ends the
\* process, every goroutine of every watcher with it; without, the
\* notification is dropped and the listener goes on with the next one.
DeliverPanic(w, h) ==
    /\ wpc[w] = "running"
    /\ h \in DOMAIN listeners[w]
    /\ listeners[w][h] # << >>
    /\ IF reallyCrash
       THEN /\ wpc' = [v \in Wids |-> "crashed"]
            /\ cpc' = [v \in Wids |-> IF cpc[v] = "none" THEN "none" ELSE "crashed"]
            /\ rpc' = [v \in Wids |-> IF rpc[v] = "none" THEN "none" ELSE "crashed"]
            /\ spc' = [v \in Wids |-> "none"]
            /\ closer' = [v \in Wids |-> IF closer[v] = "none" THEN "none" ELSE "crashed"]
            /\ listeners' = [v \in Wids |-> [g \in DOMAIN listeners[v] |-> << >>]]
       ELSE /\ listeners' = [listeners EXCEPT ![w][h] = Tail(@)]
            /\ UNCHANGED << wpc, cpc, rpc, spc, closer >>
    /\ UNCHANGED << kvars, svars, cvars, wns, stopSending, stopReturned, fifoClosed,
                    lastRV, fifo, indexer, calls, drops, queue >>

\* a queue whose Add appends without looking at dirty
QueueAdd_NoDedup(q, d, p, k) == [queue |-> Append(q, k), dirty |-> d \cup { k }]

\* workqueue.Type.Add: a key that is dirty already is dropped; a key that is
\* being processed is marked dirty and queued again only by Done.
QueueAdd(q, d, p, k) ==
    IF k \in d THEN [queue |-> q, dirty |-> d]
    ELSE IF k \in p THEN [queue |-> q, dirty |-> d \cup { k }]
    ELSE [queue |-> Append(q, k), dirty |-> d \cup { k }]

\* w.queue.Add(key), AddRateLimited(key) once its delay has passed
Add(w, k) ==
    /\ adds[w][k] < MaxAdds
    /\ LET r == QueueAdd(queue[w], dirty[w], processing[w], k) IN
          /\ queue' = [queue EXCEPT ![w] = r.queue]
          /\ dirty' = [dirty EXCEPT ![w] = r.dirty]
    /\ adds' = [adds EXCEPT ![w][k] = @ + 1]
    /\ UNCHANGED << svars, cvars, avars, mvars, reallyCrash, got, nvars, processing, wns, wpc, stopSending,
                    stopReturned, closer, fifoClosed, cpc, rpc, spc, lastRV, fifo, indexer,
                    listeners, calls, drops >>

\* w.queue.Get(): the oldest queued key goes to the consumer
Get(w) ==
    /\ queue[w] # << >>
    /\ LET k == Head(queue[w]) IN
          /\ queue' = [queue EXCEPT ![w] = Tail(@)]
          /\ processing' = [processing EXCEPT ![w] = @ \cup { k }]
          /\ dirty' = [dirty EXCEPT ![w] = @ \ { k }]
          /\ adds' = [adds EXCEPT ![w][k] = 0]
    /\ UNCHANGED << svars, cvars, avars, mvars, reallyCrash, got, nvars, wns, wpc, stopSending,
                    stopReturned, closer, fifoClosed, cpc, rpc, spc, lastRV, fifo, indexer,
                    listeners, calls, drops >>

\* w.queue.Done(key): a key added again while it was processed is queued
Done(w, k) ==
    /\ k \in processing[w]
    /\ processing' = [processing EXCEPT ![w] = @ \ { k }]
    /\ queue' = [queue EXCEPT ![w] = IF k \in dirty[w] THEN Append(@, k) ELSE @]
    /\ UNCHANGED << svars, cvars, avars, mvars, reallyCrash, got, nvars, dirty, adds, wns, wpc, stopSending,
                    stopReturned, closer, fifoClosed, cpc, rpc, spc, lastRV, fifo, indexer,
                    listeners, calls, drops >>

\* a GetObject that looks every object up under its bare name
GetObject_BareName(w, namespace, name) ==
    LET hit == { o \in ObjIds : indexer[w][o] > 0 /\ << o.name >> = << name >> }
    IN IF hit = {} THEN [obj |-> 0, exists |-> FALSE, err |-> FALSE]
       ELSE [obj |-> indexer[w][CHOOSE o \in hit : TRUE], exists |-> TRUE, err |-> FALSE]

\* K8sResourceWatcher.GetObject: the key is "namespace/name", or the bare name
\* for an empty namespace; the object is read from the indexer.
GetObject(w, namespace, name) ==
    LET key == IF Len(namespace) > 0 THEN << namespace, name >> ELSE << name >>
        hit == { o \in ObjIds : indexer[w][o] > 0 /\ MetaNamespaceKeyFunc(o) = key }
    IN IF hit = {} THEN [obj |-> 0, exists |-> FALSE, err |-> FALSE]
       ELSE [obj |-> indexer[w][CHOOSE o \in hit : TRUE], exists |-> TRUE, err |-> FALSE]

\* a caller calls w.GetObject(namespace, name) and keeps what it returns
GetObjectCall(w, namespace, name) ==
    /\ wpc[w] # "crashed"
    /\ LET r == GetObject(w, namespace, name) IN
          got' = [called |-> TRUE, w |-> w, namespace |-> namespace, name |-> name,
                  obj |-> r.obj, exists |-> r.exists, err |-> r.err]
    /\ got' # got
    /\ UNCHANGED << svars, wvars, cvars, avars, mvars, reallyCrash, dirty, processing, adds, nvars >>

\* ------------------------------------------------------- GenericK8sClient
\* GenericK8sClient.Start: runtimeCluster.Start(mgrCtx) blocks until mgrCtx is
\* cancelled (runtimeCluster is never nil after a successful construction).
ClientStart ==
    /\ mgrPc = "idle"
    /\ mgrPc' = "running"
    /\ UNCHANGED << kvars, svars, wvars, mgrCancelled >>

ClientStartReturn ==
    /\ mgrPc = "running"
    /\ mgrCancelled
    /\ mgrPc' = "returned"
    /\ UNCHANGED << kvars, svars, wvars, mgrCancelled >>

\* a Stop whose cancellation the informers of the watchers observe
ClientStop_StopsWatchers ==
    /\ mgrCancelled' = TRUE
    /\ fifoClosed' = [w \in Wids |-> wpc[w] = "running"]
    /\ closer' = [w \in Wids |-> IF wpc[w] = "running" THEN "done" ELSE closer[w]]
    /\ UNCHANGED << kvars, svars, mgrPc, wns, wpc, stopSending, stopReturned, cpc, rpc, spc, lastRV,
                    fifo, indexer, listeners, calls, drops, queue >>

\* a Stop that waits until no earlier Stop has cancelled mgrCtx
ClientStop_Once ==
    /\ ~mgrCancelled
    /\ mgrCancelled' = TRUE
    /\ UNCHANGED << kvars, svars, wvars, mgrPc >>

\* GenericK8sClient.Stop: c.stopMgr() cancels mgrCtx
ClientStop ==
    /\ mgrCancelled' = TRUE
    /\ UNCHANGED << kvars, svars, wvars, mgrPc >>

\* -------------------------------------------------------- NewDynamicWatcher
\* a merge in which the by-namespace function wins over the caller's
MergeIndexers_KeepDefault(default, given) ==
    [k \in DOMAIN default \cup DOMAIN given |-> IF k \in DOMAIN default THEN default[k] ELSE given[k]]

\* if len(indexers) > 0 { for k, v := range indexers { defaultIndexers[k] = v } }
MergeIndexers(default, given) ==
    IF DOMAIN given = {} THEN default
    ELSE [k \in DOMAIN default \cup DOMAIN given |-> IF k \in DOMAIN given THEN given[k] ELSE default[k]]

\* NewDynamicWatcher: the indexers the informer is created with
NewDynamicWatcher ==
    /\ DOMAIN defaultIndexers = {}
    /\ defaultIndexers' = MergeIndexers((NamespaceIndex :> "MetaNamespaceIndexFunc"), indexers)
    /\ UNCHANGED << svars, wvars, cvars, avars, mvars, reallyCrash, dirty, processing, adds,
                    got, eagerMapper, conn, use, gvr, indexers >>

\* ------------------------------------------------------------ construction
\* what a constructor returns: (*GenericK8sClient, error), with the requests
\* it has sent to the server on the way
Built(probes, requests) ==
    [client |-> TRUE, err |-> Nil, probes |-> probes, requests |-> requests]
Failed(stage, probes, requests) ==
    [client |-> FALSE, err |-> stage, probes |-> probes, requests |-> requests]

\* cluster.New(config, ...): builds the RESTMapper with the default
\* MapperProvider; a mapper that is not lazy fetches the API groups of the
\* server at once and fails if the server cannot be reached.
ClusterNew(reachable, eager) ==
    [err |-> IF eager /\ ~reachable THEN "discovery" ELSE Nil,
     requests |-> IF eager THEN 1 ELSE 0]

\* newGenericK8sClientWithKubeConfigObj (token mode): rest config, dynamic
\* client, standard client, cluster.New; no ServerVersion
newGenericK8sClientWithKubeConfigObj(fault, reachable, eager) ==
    IF fault = "config" THEN Failed("rest client config", 0, 0)
    ELSE IF fault = "dynamic" THEN Failed("dynamic client", 0, 0)
    ELSE IF fault = "standard" THEN Failed("standard client", 0, 0)
    ELSE LET c == ClusterNew(reachable, eager) IN
         IF c.err # Nil THEN Failed("runtime cluster", 0, c.requests)
         ELSE Built(0, c.requests)

\* newGenericK8sClientWithRestConfig (config-bytes and in-cluster modes):
\* dynamic client, standard client, sc.ServerVersion(), cluster.New
newGenericK8sClientWithRestConfig(fault, reachable, eager) ==
    IF fault = "dynamic" THEN Failed("dynamic client", 0, 0)
    ELSE IF fault = "standard" THEN Failed("standard client", 0, 0)
    ELSE IF ~reachable THEN Failed("connect", 1, 1)
    ELSE LET c == ClusterNew(reachable, eager) IN
         IF c.err # Nil THEN Failed("runtime cluster", 1, 1 + c.requests)
         ELSE Built(1, 1 + c.requests)

\* NewGenericK8sClientWithToken, NewGenericK8sClientWithKubeConfigBytes,
\* NewGenericK8sClientInCluster
NewGenericK8sClient(authType, fault, reachable, eager) ==
    IF authType = "TOKEN" THEN newGenericK8sClientWithKubeConfigObj(fault, reachable, eager)
    ELSE IF fault = "config" THEN Failed("client config", 0, 0)
    ELSE newGenericK8sClientWithRestConfig(fault, reachable, eager)

\* a caller constructs a client for a server that can or cannot be reached
Construct(authType, fault, reachable) ==
    /\ LET r == NewGenericK8sClient(authType, fault, reachable, eagerMapper) IN
          conn' = [made |-> TRUE, authType |-> authType, fault |-> fault,
                   reachable |-> reachable, client |-> r.client, err |-> r.err,
                   probes |-> r.probes, requests |-> r.requests]
    /\ conn' # conn
    /\ use' = "none"
    /\ UNCHANGED << svars, wvars, cvars, avars, mvars, reallyCrash, dirty, processing, adds,
                    got, eagerMapper, gvr, indexers, defaultIndexers >>

\* the first request through the clients of conn
FirstUse ==
    /\ conn.made /\ conn.client
    /\ use = "none"
    /\ use' = IF conn.reachable THEN "ok" ELSE "ConnectivityError"
    /\ UNCHANGED << svars, wvars, cvars, avars, mvars, reallyCrash, dirty, processing, adds,
                    got, eagerMapper, conn, gvr, indexers, defaultIndexers >>

\* ----------------------------------------------------------------- GvkToGvr
\* the nil error of a discovery query or of GvkToGvr
NoError == [style |-> "nil", kind |-> ""]

\* schema.GroupVersion.String(): "group/version", or "version" for the core group
GroupVersionString(gvk) ==
    IF gvk.Group = "" THEN gvk.Version ELSE gvk.Group \o "/" \o gvk.Version

\* DiscoveryClient.ServerResourcesForGroupVersion(gv) on a server that cannot
\* be reached, does not serve gv, or answers with one of its documents
ServerResourcesForGroupVersion(reachable, gv) ==
    IF ~reachable THEN { [err |-> [style |-> "Unreachable", kind |-> ""], list |-> << >>] }
    ELSE IF gv \notin DOMAIN Docs
         THEN { [err |-> [style |-> "NotFound", kind |-> ""], list |-> << >>] }
    ELSE { [err |-> NoError, list |-> d] : d \in Docs[gv] }

\* errors.New("未找到目标资源:" + gvk.String())
NotFoundError(gvk) == [style |-> "NotFound", kind |-> gvk.Kind]

\* the matches of kind in the resource list
Matches(list, kind) == { i \in 1..Len(list) : list[i].Kind = kind }

\* a scan that keeps the last match
Scan_LastMatch(list, kind) ==
    CHOOSE i \in Matches(list, kind) : \A j \in Matches(list, kind) : j <= i

\* for _, resource := range resourcesList.APIResources: return at the first
\* resource whose Kind is gvk.Kind
Scan(list, kind) ==
    CHOOSE i \in Matches(list, kind) : \A j \in Matches(list, kind) : i <= j

\* GvkToGvr, given the answer of the discovery query
GvkToGvr(gvk, answer) ==
    IF answer.err # NoError THEN [gvr |-> EmptyGVR, err |-> answer.err]
    ELSE IF Matches(answer.list, gvk.Kind) # {}
         THEN [gvr |-> [Group |-> gvk.Group, Version |-> gvk.Version,
                        Resource |-> answer.list[Scan(answer.list, gvk.Kind)].Name],
               err |-> NoError]
    ELSE [gvr |-> EmptyGVR, err |-> NotFoundError(gvk)]

\* a caller calls c.GvkToGvr(gvk) on the client of conn
GvkToGvrCall(gvk) ==
    /\ conn.made /\ conn.client
    /\ \E answer \in ServerResourcesForGroupVersion(conn.reachable, GroupVersionString(gvk)) :
          LET r == GvkToGvr(gvk, answer) IN
          gvr' = [called |-> TRUE, gvk |-> gvk, answer |-> answer, out |-> r.gvr, err |-> r.err]
    /\ gvr' # gvr
    /\ UNCHANGED << svars, wvars, cvars, avars, mvars, reallyCrash, dirty, processing, adds,
                    got, eagerMapper, conn, use, indexers, defaultIndexers >>

\* --------------------------------------------- ApplyUnstructuredObjsBatch
\* What client.Create can answer for obj: an invalid object and an object
\* whose name is taken are rejected; any other request succeeds or fails for
\* a reason of the server's.
CreateErrors(obj, stored) ==
    IF ~obj.valid THEN { "Invalid" }
    ELSE IF obj.name \in stored THEN { "AlreadyExists" }
    ELSE { Nil, "ServiceUnavailable" }

\* client.Create writes the stored object back into obj when it succeeds
AfterCreate(obj, err) == IF err = Nil THEN [obj EXCEPT !.rv = 1] ELSE obj

\* a nil *unstructured.Unstructured
NilObject == [name |-> "", valid |-> FALSE, rv |-> 0]

\* a result that carries the object only when Create succeeded
UnstructuredApplyResult_ObjectOnSuccess(obj, err) ==
    [ Gvk |-> Gvk, Error |-> err, Success |-> (err = Nil),
      ResultObject |-> IF err = Nil THEN obj ELSE NilObject ]

\* ApplyUnstructuredObj: the result built around the error of Create
UnstructuredApplyResult(obj, err) ==
    [ Gvk |-> Gvk, Error |-> err, Success |-> (err = Nil), ResultObject |-> obj ]

\* a loop body that keeps the successful results only
AppendResult_SuccessOnly(lists, result, err) ==
    IF err # Nil THEN lists
    ELSE [lists EXCEPT !.successfulResults = Append(@, result)]

\* the body of the range loop: if err != nil { failedResults = append(...) }
\* else { successfulResults = append(...) }
AppendResult(lists, result, err) ==
    IF err # Nil THEN [lists EXCEPT !.failedResults = Append(@, result)]
    ELSE [lists EXCEPT !.successfulResults = Append(@, result)]

\* One iteration of  for _, obj := range objs : ApplyUnstructuredObj on the
\* next object, then the append to one of the two lists.
ApplyUnstructuredObj ==
    /\ bpc \in 1..Len(objs)
    /\ \E err \in CreateErrors(objs[bpc], created) :
          LET obj == AfterCreate(objs[bpc], err)
              result == UnstructuredApplyResult(obj, err)
              lists == AppendResult([successfulResults |-> successfulResults,
                                     failedResults |-> failedResults], result, err)
          IN /\ objs' = [objs EXCEPT ![bpc] = obj]
             /\ created' = IF err = Nil THEN created \cup { obj.name } ELSE created
             /\ createLog' = Append(createLog, [name |-> obj.name, err |-> err])
             /\ successfulResults' = lists.successfulResults
             /\ failedResults' = lists.failedResults
    /\ bpc' = bpc + 1
    /\ UNCHANGED << svars, wvars, cvars, xvars, mvars >>

\* return successfulResults, failedResults
BatchReturn ==
    /\ bpc = Len(objs) + 1
    /\ bpc' = -1
    /\ UNCHANGED << svars, wvars, cvars, xvars, mvars, objs, successfulResults, failedResults,
                    created, createLog >>

\* ---------------------------------------------------------------- AddScheme
\* a mutex that lets every caller in
CanLock_NoExclusion(lock) == TRUE

\* sync.Mutex: Lock returns only while nobody holds the mutex
CanLock(lock) == lock = "free"

\* a caller enters AddScheme(gv, addSchemeFunc) with the addSchemeFunc of
\* gv's API package
AddSchemeCall(c, gv) ==
    /\ addPc[c] = "idle"
    /\ Len(addDone[c]) < MaxAddSchemeCalls
    /\ addPc' = [addPc EXCEPT ![c] = "lock"]
    /\ addArg' = [addArg EXCEPT ![c] = gv]
    /\ UNCHANGED << svars, wvars, cvars, xvars, avars, schemeLock, scheme, addDone, ran >>

\* c.schemeLock.Lock()
SchemeLock(c) ==
    /\ addPc[c] = "lock"
    /\ CanLock(schemeLock)
    /\ schemeLock' = c
    /\ addPc' = [addPc EXCEPT ![c] = "check"]
    /\ UNCHANGED << svars, wvars, cvars, xvars, avars, scheme, addArg, addDone, ran >>

\* if !c.runtimeCluster.GetScheme().IsVersionRegistered(*gv)
IsVersionRegistered(c) ==
    /\ addPc[c] = "check"
    /\ addPc' = [addPc EXCEPT ![c] = IF addArg[c] \in scheme THEN "unlock" ELSE "call"]
    /\ UNCHANGED << svars, wvars, cvars, xvars, avars, schemeLock, scheme, addArg, addDone, ran >>

\* addSchemeFunc(c.runtimeCluster.GetScheme()): the types of gv's package
\* are added to the scheme
AddSchemeFunc(c) ==
    /\ addPc[c] = "call"
    /\ scheme' = scheme \cup { addArg[c] }
    /\ ran' = [ran EXCEPT ![addArg[c]] = @ + 1]
    /\ addPc' = [addPc EXCEPT ![c] = "unlock"]
    /\ UNCHANGED << svars, wvars, cvars, xvars, avars, schemeLock, addArg, addDone >>

\* defer c.schemeLock.Unlock(), and the return
SchemeUnlock(c) ==
    /\ addPc[c] = "unlock"
    /\ schemeLock' = "free"
    /\ addPc' = [addPc EXCEPT ![c] = "idle"]
    /\ addDone' = [addDone EXCEPT ![c] = Append(@, addArg[c])]
    /\ UNCHANGED << svars, wvars, cvars, xvars, avars, scheme, addArg, ran >>

\* ------------------------------------------------------------ specification
\* The watcher that runs; the other watchers of Wids stay as constructed.
Running == { "w1" }

\* The informer without calls of Stop: the server mutates, the stream drops,
\* the reflector relists, handlers are registered and called.
InformerStep(w, maxDrops) ==
    \/ Start(w)
    \/ CCheck(w) \/ HandleDeltas(w)
    \/ RCheck(w) \/ RList(w) \/ RWatchEvent(w)
    \/ Disconnect(w, maxDrops) \/ RBackoffTimer(w)
    \/ SResync(w)
    \/ \E h \in Handlers : AddEventHandler(w, h) \/ Deliver(w, h)

\* The steps that exist only once Stop is called
StopStep(w) ==
    \/ Stop(w) \/ StartReturn(w) \/ CloserRecv(w)
    \/ CPopClosed(w) \/ CTimer(w) \/ CTimerStop(w)
    \/ RListStop(w) \/ RWatchStop(w) \/ RBackoffStop(w)
    \/ SStop(w)

Init == WatchInit /\ wns["w2"] = ""

Next ==
    \/ \E o \in ObjIds : ServerCreate(o, MaxMutations) \/ ServerModify(o, MaxMutations)
                            \/ ServerDelete(o, MaxMutations)
    \/ \E w \in Running : InformerStep(w, MaxDisconnects)

Spec == Init /\ [][Next]_vars

\* The goroutines of a started informer are scheduled: the reflector, the
\* processLoop and the listeners each take their next step when they can.
\* Nothing obliges the server to mutate, the stream to drop, the caller to
\* call Start or AddEventHandler, or a resync to come due.
InformerFairness(w) ==
    /\ WF_vars(CCheck(w)) /\ WF_vars(HandleDeltas(w))
    /\ WF_vars(RCheck(w)) /\ WF_vars(RList(w)) /\ WF_vars(RWatchEvent(w))
    /\ WF_vars(RBackoffTimer(w))
    /\ \A h \in Handlers : WF_vars(Deliver(w, h))

\* The fair watch loop of a watcher of team-a.
FairInit == WatchInit /\ wns = [w \in Wids |-> IF w \in Running THEN NsA ELSE ""]

FairNext ==
    \/ \E o \in ObjIds : ServerCreate(o, MaxFairMutations) \/ ServerModify(o, MaxFairMutations)
                            \/ ServerDelete(o, MaxFairMutations)
    \/ \E w \in Running : InformerStep(w, MaxFairDisconnects)

FairSpec == FairInit /\ [][FairNext]_vars /\ \A w \in Running : InformerFairness(w)

\* The watcher of team-a with calls of its Stop, next to the client the
\* dynamic client comes from.
StopNext ==
    \/ \E o \in ObjIds : ServerCreate(o, MaxStopMutations)
    \/ \E w \in Running :
          \/ Start(w) \/ CCheck(w) \/ HandleDeltas(w)
          \/ RCheck(w) \/ RList(w) \/ RWatchEvent(w) \/ RBackoffTimer(w)
          \/ \E h \in Handlers : AddEventHandler(w, h) \/ Deliver(w, h)
          \/ StopStep(w)
    \/ ClientStart \/ ClientStartReturn \/ ClientStop

StopSpec == FairInit /\ [][StopNext]_vars

\* Every goroutine of the informer is scheduled, the receives on the stop
\* channel and the timers of the two BackoffUntil loops included, and Start
\* returns once controller.Run has returned.
StopFairness(w) ==
    /\ InformerFairness(w)
    /\ WF_vars(CloserRecv(w)) /\ WF_vars(SStop(w))
    /\ WF_vars(CPopClosed(w)) /\ WF_vars(CTimer(w)) /\ WF_vars(CTimerStop(w))
    /\ WF_vars(RListStop(w)) /\ WF_vars(RWatchStop(w)) /\ WF_vars(RBackoffStop(w))
    /\ WF_vars(StartReturn(w))
    /\ WF_vars(ClientStartReturn)

StopFairSpec == StopSpec /\ \A w \in Running : StopFairness(w)

\* The fair watch loop with handlers that may panic, in a process with either
\* setting of ReallyCrash.
PanicInit ==
    /\ InformerInit
    /\ wns = [w \in Wids |-> IF w \in Running THEN NsA ELSE ""]
    /\ NoBatch
    /\ SchemeInit
    /\ reallyCrash \in BOOLEAN
    /\ QueueInit
    /\ GetInit
    /\ IndexInit
    /\ ConnInit

PanicNext ==
    \/ FairNext
    \/ \E w \in Running : \E h \in Handlers : DeliverPanic(w, h)

PanicSpec == PanicInit /\ [][PanicNext]_vars

\* The work queues of the watchers under producers and consumers of their
\* keys.
QueueNext ==
    \E w \in Wids :
        \/ \E k \in Keys : Add(w, k) \/ Done(w, k)
        \/ Get(w)

QueueSpec == FairInit /\ [][QueueNext]_vars

\* The watcher of team-a through its whole life (created, running, stopped)
\* with a caller of GetObject; no handlers are registered.
GetNext ==
    \/ \E o \in ObjIds : ServerCreate(o, MaxStopMutations)
    \/ \E w \in Running :
          \/ Start(w) \/ CCheck(w) \/ HandleDeltas(w)
          \/ RCheck(w) \/ RList(w) \/ RWatchEvent(w) \/ RBackoffTimer(w)
          \/ StopStep(w)
          \/ \E namespace \in GetNamespaces : \E name \in GetNames :
                GetObjectCall(w, namespace, name)

GetSpec == FairInit /\ [][GetNext]_vars

\* Construction and first use of clients, in a build of either kind of
\* RESTMapper.
ConnSpecInit ==
    /\ InformerInit
    /\ wns = [w \in Wids |-> ""]
    /\ NoBatch
    /\ SchemeInit
    /\ ProcessInit
    /\ QueueInit
    /\ GetInit
    /\ IndexInit
    /\ eagerMapper \in BOOLEAN
    /\ conn = [made |-> FALSE]
    /\ use = "none"
    /\ gvr = [called |-> FALSE]

ConnNext ==
    \/ \E authType \in AuthTypes : \E fault \in Faults : \E reachable \in BOOLEAN :
          Construct(authType, fault, reachable)
    \/ FirstUse
    \/ \E gvk \in Gvks : GvkToGvrCall(gvk)

ConnSpec == ConnSpecInit /\ [][ConnNext]_vars

\* Two watchers built from the same dynamic client, both started; Stop is
\* called on the first only, and handlers are registered on the second only.
TwoNext ==
    \/ \E o \in ObjIds : ServerCreate(o, MaxStopMutations)
    \/ \E w \in Running : Stop(w)
    \/ \E w \in Wids \ Running : \E h \in Handlers : AddEventHandler(w, h) \/ Deliver(w, h)
    \/ \E w \in Wids :
          \/ Start(w) \/ CCheck(w) \/ HandleDeltas(w)
          \/ RCheck(w) \/ RList(w) \/ RWatchEvent(w) \/ RBackoffTimer(w)
          \/ StartReturn(w) \/ CloserRecv(w)
          \/ CPopClosed(w) \/ CTimer(w) \/ CTimerStop(w)
          \/ RListStop(w) \/ RWatchStop(w) \/ RBackoffStop(w)
          \/ SStop(w)

TwoSpec == FairInit /\ [][TwoNext]_vars

\* A call of NewDynamicWatcher for every map of indexers over IndexNames,
\* the nil map included.
IndexSpecInit ==
    /\ InformerInit
    /\ wns = [w \in Wids |-> ""]
    /\ NoBatch
    /\ SchemeInit
    /\ ProcessInit
    /\ QueueInit
    /\ GetInit
    /\ ConnInit
    /\ indexers \in UNION { [names -> IndexFuncs] : names \in SUBSET IndexNames }
    /\ defaultIndexers = << >>

IndexNext == NewDynamicWatcher

IndexSpec == IndexSpecInit /\ [][IndexNext]_vars

\* sequences over S of length at most n
SeqsUpTo(S, n) == UNION { [1..k -> S] : k \in 0..n }

\* One call of ApplyUnstructuredObjsBatch, for every slice of at most
\* MaxBatch objects and every content of the server.
ApplyInit ==
    /\ server = [o \in ObjIds |-> 0]
    /\ log = << >>
    /\ wns = [w \in Wids |-> ""]
    /\ wpc = [w \in Wids |-> "created"]
    /\ stopSending = [w \in Wids |-> 0]
    /\ stopReturned = [w \in Wids |-> 0]
    /\ closer = [w \in Wids |-> "none"]
    /\ fifoClosed = [w \in Wids |-> FALSE]
    /\ cpc = [w \in Wids |-> "none"]
    /\ rpc = [w \in Wids |-> "none"]
    /\ spc = [w \in Wids |-> "none"]
    /\ lastRV = [w \in Wids |-> 0]
    /\ fifo = [w \in Wids |-> << >>]
    /\ indexer = [w \in Wids |-> [o \in ObjIds |-> 0]]
    /\ listeners = [w \in Wids |-> << >>]
    /\ calls = [w \in Wids |-> << >>]
    /\ drops = [w \in Wids |-> 0]
    /\ queue = [w \in Wids |-> << >>]
    /\ mgrCancelled = FALSE
    /\ mgrPc = "idle"
    /\ SchemeInit
    /\ ProcessInit
    /\ QueueInit
    /\ GetInit
    /\ IndexInit
    /\ ConnInit
    /\ objs \in SeqsUpTo(ApplyObjs, MaxBatch)
    /\ bpc = 1
    /\ successfulResults = << >>
    /\ failedResults = << >>
    /\ created \in SUBSET { "a" }
    /\ createLog = << >>

ApplyNext == ApplyUnstructuredObj \/ BatchReturn

ApplySpec == ApplyInit /\ [][ApplyNext]_vars

\* Concurrent callers of AddScheme on one client.
SchemeNext ==
    \E c \in Callers :
        \/ \E gv \in GVs : AddSchemeCall(c, gv)
        \/ SchemeLock(c) \/ IsVersionRegistered(c) \/ AddSchemeFunc(c) \/ SchemeUnlock(c)

SchemeSpec == FairInit /\ [][SchemeNext]_vars

\* ------------------------------------------------------------------ claims
\* Everything w has seen is processed and delivered: the stream is up and
\* read to its end, the DeltaFIFO and every listener are empty.
Quiescent(w) ==
    /\ wpc[w] = "running"
    /\ rpc[w] = "watch"
    /\ lastRV[w] = Len(log)
    /\ fifo[w] = << >>
    /\ \A h \in DOMAIN listeners[w] : listeners[w][h] = << >>

\* This step hands the oldest pending notification of listener h to a handler.
DeliverStep(w, h) ==
    /\ h \in DOMAIN listeners[w]
    /\ listeners[w][h] # << >>
    /\ wpc'[w] = wpc[w]
    /\ listeners'[w][h] = Tail(listeners[w][h])

\* C1: per key, the handlers are called in the order of the observed
\* transitions.  Every delivered notification calls exactly the one handler of
\* its kind: an add only for a key the handler does not hold (after it the
\* handler holds the key), an update only for a key it holds (so never before
\* the key's add), a delete only for a key it holds (after it the handler does
\* not hold the key, so a second delete needs an add in between).
C1_PerKeyOrder ==
    [][\A w \in Wids : \A h \in Handlers :
          DeliverStep(w, h) =>
             LET n    == Head(listeners[w][h])
                 old  == calls[w][h].view
                 new  == calls'[w][h].view
             IN /\ n.kind = "add"    => n.id \notin old /\ new = old \cup {n.id}
                /\ n.kind = "update" => n.id \in old /\ new = old
                /\ n.kind = "delete" => n.id \in old /\ new = old \ {n.id}]_vars

\* C1 witness: a handler of a running watcher holds a key and has that key's
\* delete, followed by its next add, waiting to be delivered.
C1_Witness ==
    \E w \in Wids : \E h \in DOMAIN listeners[w] :
        /\ wpc[w] = "running"
        /\ Len(listeners[w][h]) = 2
        /\ listeners[w][h][1].kind = "delete"
        /\ listeners[w][h][2].kind = "add"
        /\ listeners[w][h][1].id = listeners[w][h][2].id
        /\ listeners[w][h][1].id \in calls[w][h].view

\* C2: an object in the cache that is deleted on the server while the stream
\* is down gets, after the relist, one call of the Delete handler: never a
\* second one, not zero once the watcher has caught up, and the key is out of
\* the cache and out of the handler's view after the call.
C2_OneDeleteAfterRelist ==
    \A w \in Wids : \A h \in DOMAIN calls[w] : \A o \in ObjIds :
        LET d == calls[w][h].del[o] IN
        /\ d # "twice"
        /\ d = "delivered" => indexer[w][o] = 0 /\ o \notin calls[w][h].view
                              /\ ~GetObject(w, o.ns, o.name).exists
        /\ Quiescent(w) => d # "armed"

\* C2 witness: the stream of w dropped, the object was deleted meanwhile, the
\* Delete handler has been called for it and the watcher has caught up.
C2_Witness ==
    \E w \in Wids : \E h \in DOMAIN calls[w] : \E o \in ObjIds :
        /\ calls[w][h].del[o] = "delivered"
        /\ drops[w] > 0
        /\ server[o] = 0
        /\ Quiescent(w)

\* calls of K8sResourceWatcher.Stop made so far, returned or not
StopCalls(w) == stopSending[w] + stopReturned[w]

\* C3 as stated: once Stop has been called on a watcher whose Start is
\* running, the watch loop exits and Start returns (unless Stop is called
\* again, which is outside the claim).
C3_StopEndsLoop ==
    \A w \in Running :
        (wpc[w] = "running" /\ StopCalls(w) = 1) ~> (wpc[w] = "returned" \/ StopCalls(w) > 1)

\* The cache of w holds exactly what the server holds in w's namespace.
CacheMatchesServer(w) == \A o \in ObjIds : indexer[w][o] = Listed(w)[o]

\* C4: under a fair watch loop that is not stopped, the cache of a running
\* watcher eventually holds, for every key, the object of the last mutation
\* (no entry after a delete) and keeps holding it, stream drops included.
C4_EventualConsistency ==
    <>[](\A w \in Wids : wpc[w] = "running" => CacheMatchesServer(w))

\* C4 witness: an object was created and seen, the stream dropped, the object
\* was deleted, and the running watcher has caught up: its cache holds the
\* last state, in which the object has no entry.
C4_Witness ==
    \E w \in Wids : \E o \in ObjIds :
        /\ Quiescent(w)
        /\ drops[w] > 0
        /\ InScope(wns[w], o)
        /\ Len(log) > 1 /\ log[Len(log)].id = o /\ log[Len(log)].type = "Deleted"
        /\ CacheMatchesServer(w)

\* C5 as stated: every key a handler was called for has been added to the
\* work queue.
C5_EveryEventEnqueues ==
    \A w \in Wids : \A h \in DOMAIN calls[w] : \A o \in calls[w][h].seen :
        \E i \in 1..Len(queue[w]) : queue[w][i] = MetaNamespaceKeyFunc(o)

\* C5 amended: no event adds a key to the work queue; the queue created by
\* NewDynamicWatcher stays empty whatever the handlers are called with.
C5_QueueStaysEmpty == \A w \in Wids : queue[w] = << >>

\* C5 witness: a key has gone through its add and its delete handler and the
\* queue is empty.
C5_Witness ==
    \E w \in Wids : \E h \in DOMAIN calls[w] :
        /\ calls[w][h].seen # {}
        /\ calls[w][h].view = {}
        /\ queue[w] = << >>

\* No goroutine of the watch loop of w waits on the stop channel: Start has
\* not been called, or Start has returned and the goroutine that closes the
\* DeltaFIFO has finished too.
NoLoopReceiving(w) ==
    \/ wpc[w] = "created"
    \/ wpc[w] = "returned" /\ closer[w] = "done" /\ spc[w] # "waiting"

C10_ClientStopStopsWatchers ==
    \A w \in Running :
        (mgrCancelled /\ wpc[w] = "running") ~> (wpc[w] = "returned" \/ StopCalls(w) > 0)

\* C10 amended: the watchers do not observe the context the connection's Stop
\* cancels.  No part of a watcher's loop ends, and its DeltaFIFO is not
\* closed, unless a call of the watcher's own Stop has been received, whether
\* or not the connection was stopped.
C10_WatcherIgnoresClientStop ==
    \A w \in Wids :
        (closer[w] = "done" \/ fifoClosed[w] \/ cpc[w] = "exited" \/ rpc[w] = "exited"
            \/ spc[w] = "gone" \/ wpc[w] = "returned")
        => stopReturned[w] > 0

\* C10 witness: the connection was started and stopped, its Start has
\* returned, and the watcher, whose Stop was never called, is running, has
\* caught up and holds an object in its cache.
C10_Witness ==
    \E w \in Wids :
        /\ mgrCancelled /\ mgrPc = "returned"
        /\ StopCalls(w) = 0
        /\ Quiescent(w)
        /\ \E o \in ObjIds : indexer[w][o] > 0

\* positions of objs whose Create the server has answered with an error
FailedAt == { i \in 1..Len(createLog) : createLog[i].err # Nil }

\* the result for the object at position i
ResultAt(i) == UnstructuredApplyResult(objs[i], createLog[i].err)

\* the results for the positions 1..n that failed (or did not), in input order
RECURSIVE ResultsWhere(_, _)
ResultsWhere(n, failed) ==
    IF n = 0 THEN << >>
    ELSE LET r == ResultsWhere(n - 1, failed)
         IN IF (n \in FailedAt) = failed THEN Append(r, ResultAt(n)) ELSE r

\* C6: ApplyUnstructuredObjsBatch attempts each object exactly once in input
\* order and continues after a failure; the success list and the failure
\* list hold, each in input order, the results of the objects whose create
\* succeeded and failed, one result per input object in total.  When exactly
\* object k fails, the success list has N-1 entries and the failure list is
\* the one result for object k.
C6_BatchResults ==
    /\ bpc \in 1..(Len(objs) + 1) => Len(createLog) = bpc - 1
    /\ \A i \in 1..Len(createLog) : createLog[i].name = objs[i].name
    /\ successfulResults = ResultsWhere(Len(createLog), FALSE)
    /\ failedResults = ResultsWhere(Len(createLog), TRUE)
    /\ bpc = -1 =>
          /\ Len(createLog) = Len(objs)
          /\ Len(successfulResults) + Len(failedResults) = Len(objs)
          /\ \A k \in 1..Len(objs) :
                FailedAt = { k } =>
                    /\ Len(successfulResults) = Len(objs) - 1
                    /\ failedResults = << ResultAt(k) >>

\* C6 witness: a batch of at least three objects has returned, exactly one
\* object, neither the first nor the last, failed, and the objects after it
\* were created.
C6_Witness ==
    /\ bpc = -1
    /\ Len(objs) >= 3
    /\ \E k \in 2..(Len(objs) - 1) :
          /\ FailedAt = { k }
          /\ Len(failedResults) = 1
          /\ Len(successfulResults) = Len(objs) - 1
          /\ objs[Len(objs)].name \in created

\* the finished calls of AddScheme made with gv
FinishedWith(c, gv) == { i \in 1..Len(addDone[c]) : addDone[c][i] = gv }

\* C7: over all interleavings of concurrent calls of AddScheme with the same
\* group/version, its registration callback runs exactly once (never for a
\* built-in group/version).  The test for registration and the callback run under the mutex
\* as one step: nothing is registered between them, and a caller that comes
\* after a finished call sees the group/version as registered.
C7_CallbackOnce ==
    /\ \A gv \in GVs : ran[gv] <= 1
    /\ \A gv \in BuiltIn : ran[gv] = 0
    /\ \A gv \in GVs \ BuiltIn :
          (\E c \in Callers : FinishedWith(c, gv) # {}) => ran[gv] = 1
    /\ \A c \in Callers :
          /\ addPc[c] \in { "check", "call", "unlock" } => schemeLock = c
          /\ addPc[c] = "call" => addArg[c] \notin scheme
          /\ (addPc[c] = "check" /\ \E d \in Callers : FinishedWith(d, addArg[c]) # {})
                => addArg[c] \in scheme

\* C7 witness: two callers are in AddScheme with the same group/version, not
\* registered before; one has run the callback and still holds the mutex,
\* the other waits in Lock.
C7_Witness ==
    \E c, d \in Callers :
        /\ c # d
        /\ addArg[c] = addArg[d]
        /\ addArg[c] \notin BuiltIn
        /\ \A e \in Callers : FinishedWith(e, addArg[c]) = {}
        /\ addPc[c] = "unlock" /\ schemeLock = c /\ ran[addArg[c]] = 1
        /\ addPc[d] = "lock"

\* C11 as stated: a handler that panics on one event does not terminate the
\* watch loop; the goroutines of a started watcher keep running, so later
\* events are still applied to the cache and delivered.
C11_PanicKeepsLoop ==
    \A w \in Running :
        /\ wpc[w] # "crashed"
        /\ cpc[w] # "crashed"
        /\ rpc[w] # "crashed"

\* how often key k is queued
Pending(w, k) == Cardinality({ i \in 1..Len(queue[w]) : queue[w][i] = k })

\* C12: the work queue holds a key at most once however often it was added
\* before it is dequeued, so the pending items never outnumber the distinct
\* keys; a key added since it was last handed out is owed exactly one Get,
\* and a Get of it leaves none of it pending.
C12_QueueDeduplicates ==
    \A w \in Wids :
        /\ Len(queue[w]) <= Cardinality(Keys)
        /\ \A k \in Keys :
              /\ Pending(w, k) <= 1
              /\ Pending(w, k) = 1 => k \in dirty[w]
              /\ adds[w][k] > 0 <=> k \in dirty[w]
              /\ (k \in dirty[w] /\ k \notin processing[w]) => Pending(w, k) = 1

\* C12 witness: a key was added more than once and not yet dequeued, and it
\* is pending once.
C12_Witness ==
    \E w \in Wids : \E k \in Keys :
        adds[w][k] >= 2 /\ k \notin processing[w] /\ Pending(w, k) = 1

\* the keys of the objects that have appeared in an event so far
KeysInEvents == { << log[i].id.ns, log[i].id.name >> : i \in 1..Len(log) }

C14_TokenDefersProbe ==
    (conn.made /\ conn.fault = "none" /\ ~conn.reachable) =>
        IF conn.authType = "TOKEN"
        THEN /\ conn.client /\ conn.err = Nil /\ conn.probes = 0
             /\ use # "none" => use = "ConnectivityError"
        ELSE ~conn.client /\ conn.err = "connect" /\ conn.probes = 1

\* C15 as stated: whenever GvkToGvr fails, because no discovered resource
\* matches or because the discovery query failed, its error is a NotFound
\* error that carries the kind asked for, and it returns the empty reference.
C15_FailureCarriesKind ==
    (gvr.called /\ gvr.err # NoError) =>
        /\ gvr.err.style = "NotFound"
        /\ gvr.err.kind = gvr.gvk.Kind
        /\ gvr.out = EmptyGVR

\* C15 amended: GvkToGvr returns the group and version of the input with the
\* name of the first discovered resource of the input's kind; when nothing
\* matches it fails with the NotFound error that carries the kind; when the
\* discovery query fails it returns the error of the query unchanged, which
\* names no kind; in both failures it returns the empty reference.
C15_GvkToGvrResult ==
    gvr.called =>
        LET list == gvr.answer.list
            hits == { i \in 1..Len(list) : list[i].Kind = gvr.gvk.Kind }
        IN IF gvr.answer.err # NoError
           THEN gvr.out = EmptyGVR /\ gvr.err = gvr.answer.err /\ gvr.err.kind = ""
           ELSE IF hits = {}
           THEN gvr.out = EmptyGVR /\ gvr.err = [style |-> "NotFound", kind |-> gvr.gvk.Kind]
           ELSE /\ gvr.err = NoError
                /\ gvr.out.Group = gvr.gvk.Group /\ gvr.out.Version = gvr.gvk.Version
                /\ \E i \in hits : /\ \A j \in hits : i <= j
                                    /\ gvr.out.Resource = list[i].Name

\* C15 witness: the discovery query of a call of GvkToGvr failed because the
\* server could not be reached, and the call returned the empty reference
\* with an error that names no kind.
C15_Witness ==
    /\ gvr.called
    /\ gvr.answer.err # NoError /\ gvr.answer.err.style = "Unreachable"
    /\ gvr.out = EmptyGVR
    /\ gvr.err.kind = ""

\* everything a watcher owns but its stop channel
WatcherState(w) ==
    << wns[w], wpc[w], closer[w], fifoClosed[w], cpc[w], rpc[w], spc[w], lastRV[w],
       fifo[w], indexer[w], listeners[w], calls[w], drops[w], queue[w] >>

\* C16: a step in which Stop is called on a watcher, or in which a call of
\* its Stop is received, changes nothing of any other watcher: the other
\* watchers stay as they are, running if they were, with their cache, their
\* handlers and their work queue; and no part of a watcher's loop has ended
\* unless its own Stop was called.
C16_StopLeavesOthers ==
    [][\A w, v \in Wids :
          (w # v /\ << stopSending'[w], stopReturned'[w] >> # << stopSending[w], stopReturned[w] >>)
          => /\ WatcherState(v)' = WatcherState(v)
             /\ << stopSending'[v], stopReturned'[v] >> = << stopSending[v], stopReturned[v] >>
             /\ StopCalls(v) = 0 =>
                   (closer[v] # "done" /\ ~fifoClosed[v] /\ cpc[v] # "exited" /\ rpc[v] # "exited")]_vars

\* C16 witness: the first watcher was stopped and its Start has returned; the
\* second, whose Stop was never called, is running, has caught up with the
\* server, holds an object in its cache and has called its handler for it.
C16_Witness ==
    \E w, v \in Wids :
        /\ w # v
        /\ wpc[w] = "returned" /\ stopReturned[w] > 0
        /\ StopCalls(v) = 0
        /\ Quiescent(v)
        /\ \E o \in ObjIds : indexer[v][o] > 0 /\ \E h \in DOMAIN calls[v] : o \in calls[v][h].view

\* how many of the positions 1..i failed (or did not)
Rank(i, failed) == Cardinality({ j \in 1..i : (j \in FailedAt) = failed })

\* the result ApplyUnstructuredObj returned for the object at position i
ReturnedFor(i) ==
    IF i \in FailedAt THEN failedResults[Rank(i, TRUE)] ELSE successfulResults[Rank(i, FALSE)]

\* C17 as stated: the result object of a result is the submitted object if
\* and only if the create succeeded.
C17_ObjectOnlyOnSuccess ==
    \A i \in 1..Len(createLog) :
        (ReturnedFor(i).ResultObject = objs[i]) <=> ReturnedFor(i).Success

\* C17 amended: ApplyUnstructuredObj issues exactly one create per call; its
\* result has Success true exactly when the create returned no error, has
\* the create's error as Error, and has the submitted object as result
\* object whether the create succeeded or failed; the error returned next to
\* the result, by which the batch sorts it, is non-nil exactly when Success
\* is false.
C17_ResultOfCreate ==
    /\ Len(createLog) = Len(successfulResults) + Len(failedResults)
    /\ \A i \in 1..Len(createLog) :
          /\ createLog[i].name = objs[i].name
          /\ ReturnedFor(i).Error = createLog[i].err
          /\ ReturnedFor(i).Success <=> createLog[i].err = Nil
          /\ ReturnedFor(i).ResultObject = objs[i]
          /\ ReturnedFor(i).Gvk = Gvk
          /\ i \in FailedAt <=> ~ReturnedFor(i).Success

\* C17 witness: a create has failed, and the result kept for it has Success
\* false, the error of the create, and the submitted object as result object.
C17_Witness ==
    \E i \in 1..Len(createLog) :
        /\ createLog[i].err # Nil
        /\ ~ReturnedFor(i).Success
        /\ ReturnedFor(i).Error = createLog[i].err
        /\ ReturnedFor(i).ResultObject = objs[i]
        /\ objs[i] # NilObject

\* C18: the informer of a watcher built by NewDynamicWatcher has an index
\* under the default namespace index name and every index of the caller under
\* its own name, and no other; the default namespace index is the
\* by-namespace function unless the caller supplies an index of that name,
\* whose function then replaces it.
C18_Indexers ==
    DOMAIN defaultIndexers # {} =>
        /\ DOMAIN defaultIndexers = DOMAIN indexers \cup { NamespaceIndex }
        /\ \A k \in DOMAIN indexers : defaultIndexers[k] = indexers[k]
        /\ NamespaceIndex \notin DOMAIN indexers
              => defaultIndexers[NamespaceIndex] = "MetaNamespaceIndexFunc"

\* C18 witness: the caller supplied an index under the default namespace
\* index name with a function of its own and one more index, and the watcher
\* is built with both.
C18_Witness ==
    /\ NamespaceIndex \in DOMAIN indexers
    /\ indexers[NamespaceIndex] # "MetaNamespaceIndexFunc"
    /\ DOMAIN indexers # { NamespaceIndex }
    /\ DOMAIN defaultIndexers = DOMAIN indexers
    /\ defaultIndexers[NamespaceIndex] = indexers[NamespaceIndex]

\* C19: GenericK8sClient.Stop can be called in every state, before, during
\* and after Start and after an earlier Stop, and returns without waiting;
\* once it has been called mgrCtx stays cancelled; a Start that is running
\* when mgrCtx is cancelled returns, whether Start was called before or
\* after the cancellation, and a Start that has returned stays returned.
C19_ClientStopIdempotent ==
    /\ [](ENABLED ClientStop)
    /\ [][mgrCancelled => mgrCancelled']_vars
    /\ (mgrPc = "running" /\ mgrCancelled) ~> (mgrPc = "returned")
    /\ [][mgrPc = "returned" => mgrPc' = "returned"]_vars

\* C19 witness: Start has returned after Stop cancelled mgrCtx, and Stop can
\* be called again.
C19_Witness ==
    /\ mgrCancelled
    /\ mgrPc = "returned"
    /\ ENABLED ClientStop

\* C8: a watcher of one namespace never calls a handler for an object of
\* another namespace, and GetObject finds no key of another namespace.
C8_NamespaceIsolation ==
    \A w \in Wids : wns[w] # "" =>
        \A o \in ObjIds : o.ns # wns[w] =>
            /\ \A h \in DOMAIN calls[w] : o \notin calls[w][h].seen
            /\ ~GetObject(w, o.ns, o.name).exists

\* C8 witness: the watcher of team-a has caught up with a server that holds an
\* object of team-b, and its handler was called for an object of team-a.
C8_Witness ==
    \E w \in Wids : \E h \in DOMAIN calls[w] :
        /\ wns[w] = NsA
        /\ Quiescent(w)
        /\ \E o \in ObjIds : o.ns = NsB /\ server[o] > 0
        /\ \E o \in calls[w][h].seen : o.ns = NsA

====
